---- MODULE Spec2Model ----
(***************************************************************************)
(* A model of lemon::BinHeap (src/lemon/bin_heap.h): a binary heap of      *)
(* (item, priority) pairs stored in a vector _data, with an external       *)
(* item -> int cross-reference map _iim holding each item's slot, or the   *)
(* sentinel PRE_HEAP (-1) / POST_HEAP (-2).                                *)
(*                                                                         *)
(* Slots are numbered from 0 as in the source; slot s of _data is element  *)
(* s+1 of the TLA+ sequence.  A heap value is a record                     *)
(*   [data, iim, moves, rose, sank, oob]                                   *)
(* where moves counts the calls of move(), rose the iterations of          *)
(* bubble_up's loop, sank the entries bubble_down promoted, and oob        *)
(* records whether _data was indexed outside [0, size), all since the      *)
(* operation began.                                                        *)
(***************************************************************************)
EXTENDS Integers, Sequences, FiniteSets, TLC

\* Bounds of the model.
NItems == 3        \* items of the general specification Spec
MaxPrio == 3       \* priorities are 1..MaxPrio
BigItems == 7      \* items of the scenario specification ScnSpec
ScnPrio == 2       \* priorities pushed while ScnSpec builds its heap

\* enum State (bin_heap.h:75-79)
IN_HEAP == 0
PRE_HEAP == -1
POST_HEAP == -2

VARIABLES
  data,     \* _data: the vector of pairs
  iim,      \* _iim: the caller's item -> int map
  cleared,  \* history: clear() emptied a non-empty heap, map not reset since
  last,     \* history: the last operation, its arguments and its cost
  pushed,   \* history (DrnSpec): the pairs the caller pushed
  out,      \* history (DrnSpec): the pairs top()/prio() returned, in order
  hist      \* history (HstSpec): which items have been in the heap

vars == <<data, iim, cleared, last, pushed, out, hist>>

Item == DOMAIN iim
Prio == 1..MaxPrio
States == {IN_HEAP, PRE_HEAP, POST_HEAP}

Pair(i, p) == [first |-> i, second |-> p]

\* The value-initialised Pair that _data.resize(n+1) appends.
DefaultPair == Pair(0, 0)

\* The heap value an operation starts from.
Heap(d, m) ==
  [data |-> d, iim |-> m, moves |-> 0, rose |-> 0, sank |-> 0, oob |-> FALSE]

size(h) == Len(h.data)

empty(h) == Len(h.data) = 0

InRange(h, s) == 0 <= s /\ s < Len(h.data)

\* _data[s] as an rvalue; outside the vector the read is recorded by touch.
at(h, s) == IF InRange(h, s) THEN h.data[s + 1] ELSE DefaultPair

\* Records an access to _data[s].
touch(h, s) == [h EXCEPT !.oob = @ \/ ~InRange(h, s)]

\* static int parent(int i): C++ division truncates toward zero.
parent(i) == IF i - 1 >= 0 THEN (i - 1) \div 2 ELSE -((1 - i) \div 2)

second_child(i) == 2 * i + 2

\* _comp is std::less<PR>.
comp(a, b) == a < b

less(p1, p2) == comp(p1.second, p2.second)

\* Mutant of move: the slot is written, the map is not.
move_nomap(h, p, i) ==
  [h EXCEPT
     !.data  = IF InRange(h, i) THEN [@ EXCEPT ![i + 1] = p] ELSE @,
     !.moves = @ + 1,
     !.oob   = @ \/ ~InRange(h, i)]

\* void move(const Pair &p, int i)
move(h, p, i) ==
  [h EXCEPT
     !.data  = IF InRange(h, i) THEN [@ EXCEPT ![i + 1] = p] ELSE @,
     !.iim   = [@ EXCEPT ![p.first] = i],
     !.moves = @ + 1,
     !.oob   = @ \/ ~InRange(h, i)]

\* Mutant of bubble_up: the entry is stored at the hole without rising.
bubble_up_norise(h, hole, p) == [h |-> move(h, p, hole), ret |-> hole]

\* One more iteration of bubble_up's loop / one more entry promoted.
risen(h) == [h EXCEPT !.rose = @ + 1]

sunk(h) == [h EXCEPT !.sank = @ + 1]

\* Mutant of bubble_up: an entry also rises past a parent of equal priority.
RECURSIVE bubble_up_le(_, _, _)
bubble_up_le(h, hole, p) ==
  LET par == parent(hole) IN
  IF hole > 0 /\ ~less(at(h, par), p)
  THEN bubble_up_le(risen(move(touch(h, par), at(h, par), hole)), par, p)
  ELSE [h   |-> move(IF hole > 0 THEN touch(h, par) ELSE h, p, hole),
        ret |-> hole]

\* int bubble_up(int hole, Pair p): the heap after it and the value returned.
RECURSIVE bubble_up(_, _, _)
bubble_up(h, hole, p) ==
  LET par == parent(hole) IN
  IF hole > 0 /\ less(p, at(h, par))
  THEN bubble_up(risen(move(touch(h, par), at(h, par), hole)), par, p)
  ELSE [h   |-> move(IF hole > 0 THEN touch(h, par) ELSE h, p, hole),
        ret |-> hole]

\* Mutant of bubble_down: of two children of equal priority the first is
\* the one compared.
RECURSIVE bubble_down_left(_, _, _, _)
bubble_down_left(h, hole, p, length) ==
  LET child == second_child(hole) IN
  IF child < length
  THEN LET h1 == touch(touch(h, child - 1), child)
           c  == IF less(at(h, child), at(h, child - 1)) THEN child ELSE child - 1
       IN IF ~less(at(h, c), p)
          THEN [h |-> move(h1, p, hole), ret |-> hole]
          ELSE bubble_down_left(sunk(move(h1, at(h, c), hole)), c, p, length)
  ELSE LET c == child - 1 IN
       IF c < length /\ less(at(h, c), p)
       THEN [h   |-> move(sunk(move(touch(h, c), at(h, c), hole)), p, c),
             ret |-> c]
       ELSE [h   |-> move(IF c < length THEN touch(h, c) ELSE h, p, hole),
             ret |-> hole]

\* Mutant of bubble_down: the second child is always the one compared.
RECURSIVE bubble_down_right(_, _, _, _)
bubble_down_right(h, hole, p, length) ==
  LET child == second_child(hole) IN
  IF child < length
  THEN LET h1 == touch(touch(h, child - 1), child)
           c  == child
       IN IF ~less(at(h, c), p)
          THEN [h |-> move(h1, p, hole), ret |-> hole]
          ELSE bubble_down_right(sunk(move(h1, at(h, c), hole)), c, p, length)
  ELSE LET c == child - 1 IN
       IF c < length /\ less(at(h, c), p)
       THEN [h   |-> move(sunk(move(touch(h, c), at(h, c), hole)), p, c),
             ret |-> c]
       ELSE [h   |-> move(IF c < length THEN touch(h, c) ELSE h, p, hole),
             ret |-> hole]

\* Mutant of bubble_down: the check after the loop reads _data[child]
\* without testing child < length.
RECURSIVE bubble_down_nobound(_, _, _, _)
bubble_down_nobound(h, hole, p, length) ==
  LET child == second_child(hole) IN
  IF child < length
  THEN LET h1 == touch(touch(h, child - 1), child)
           c  == IF less(at(h, child - 1), at(h, child)) THEN child - 1 ELSE child
       IN IF ~less(at(h, c), p)
          THEN [h |-> move(h1, p, hole), ret |-> hole]
          ELSE bubble_down_nobound(sunk(move(h1, at(h, c), hole)), c, p, length)
  ELSE LET c == child - 1 IN
       IF c < length /\ less(at(h, c), p)
       THEN [h   |-> move(sunk(move(touch(h, c), at(h, c), hole)), p, c),
             ret |-> c]
       ELSE [h   |-> move(touch(h, c), p, hole), ret |-> hole]

\* Mutant of bubble_down: no check of the single child left after the loop.
RECURSIVE bubble_down_noresid(_, _, _, _)
bubble_down_noresid(h, hole, p, length) ==
  LET child == second_child(hole) IN
  IF child < length
  THEN LET h1 == touch(touch(h, child - 1), child)
           c  == IF less(at(h, child - 1), at(h, child)) THEN child - 1 ELSE child
       IN IF ~less(at(h, c), p)
          THEN [h |-> move(h1, p, hole), ret |-> hole]
          ELSE bubble_down_noresid(sunk(move(h1, at(h, c), hole)), c, p, length)
  ELSE [h |-> move(h, p, hole), ret |-> hole]

\* int bubble_down(int hole, Pair p, int length)
RECURSIVE bubble_down(_, _, _, _)
bubble_down(h, hole, p, length) ==
  LET child == second_child(hole) IN
  IF child < length
  THEN LET h1 == touch(touch(h, child - 1), child)
           c  == IF less(at(h, child - 1), at(h, child)) THEN child - 1 ELSE child
       IN IF ~less(at(h, c), p)
          THEN [h |-> move(h1, p, hole), ret |-> hole]
          ELSE bubble_down(sunk(move(h1, at(h, c), hole)), c, p, length)
  ELSE LET c == child - 1 IN
       IF c < length /\ less(at(h, c), p)
       THEN [h   |-> move(sunk(move(touch(h, c), at(h, c), hole)), p, c),
             ret |-> c]
       ELSE [h   |-> move(IF c < length THEN touch(h, c) ELSE h, p, hole),
             ret |-> hole]

\* _data.pop_back()
pop_back(h) == [h EXCEPT !.data = SubSeq(h.data, 1, Len(h.data) - 1)]

\* void push(const Pair &p)
push(h, p) ==
  LET n == size(h) IN
  bubble_up([h EXCEPT !.data = Append(h.data, DefaultPair)], n, p).h

\* Item top() const
top(h) == at(h, 0).first

\* Prio prio() const
prio(h) == at(h, 0).second

\* Mutant of pop: the last entry is stored at the root by bubble_up before
\* bubble_down places it.
pop_upfirst(h) ==
  LET n  == size(h) - 1
      h1 == [touch(h, 0) EXCEPT !.iim[at(h, 0).first] = POST_HEAP]
      up == bubble_up(touch(h1, n), 0, at(h1, n))
      h2 == IF n > 0 THEN bubble_down(up.h, 0, at(h1, n), n).h ELSE h1
  IN pop_back(h2)

\* Mutant of pop: the last entry is dropped instead of the root.
pop_last(h) ==
  pop_back([touch(h, 0) EXCEPT !.iim[at(h, 0).first] = POST_HEAP])

\* Mutant of pop: the removed item is not marked POST_HEAP.
pop_nomark(h) ==
  LET n  == size(h) - 1
      h2 == IF n > 0 THEN bubble_down(touch(h, n), 0, at(h, n), n).h ELSE h
  IN pop_back(h2)

\* void pop()
pop(h) ==
  LET n  == size(h) - 1
      h1 == [touch(h, 0) EXCEPT !.iim[at(h, 0).first] = POST_HEAP]
      h2 == IF n > 0 THEN bubble_down(touch(h1, n), 0, at(h1, n), n).h ELSE h1
  IN pop_back(h2)

\* Mutant of erase: bubble_down runs whatever bubble_up returned.
erase_both(h, i) ==
  LET hh == h.iim[i]
      n  == size(h) - 1
      h1 == [touch(h, hh) EXCEPT !.iim[at(h, hh).first] = POST_HEAP]
      up == bubble_up(touch(h1, n), hh, at(h1, n))
      h2 == IF hh < n
            THEN bubble_down(touch(up.h, n), hh, at(up.h, n), n).h
            ELSE h1
  IN pop_back(h2)

\* Mutant of erase: the relocated entry is only bubbled down.
erase_naive(h, i) ==
  LET hh == h.iim[i]
      n  == size(h) - 1
      h1 == [touch(h, hh) EXCEPT !.iim[at(h, hh).first] = POST_HEAP]
      h2 == IF hh < n
            THEN bubble_down(touch(h1, n), hh, at(h1, n), n).h
            ELSE h1
  IN pop_back(h2)

\* void erase(const Item &i)
erase(h, i) ==
  LET hh == h.iim[i]
      n  == size(h) - 1
      h1 == [touch(h, hh) EXCEPT !.iim[at(h, hh).first] = POST_HEAP]
      up == bubble_up(touch(h1, n), hh, at(h1, n))
      h2 == IF hh < n
            THEN IF up.ret = hh
                 THEN bubble_down(touch(up.h, n), hh, at(up.h, n), n).h
                 ELSE up.h
            ELSE h1
  IN pop_back(h2)

\* Prio operator[](const Item &i) const
operator_index(h, i) == at(h, h.iim[i]).second

\* Mutant of set: an in-heap entry is only ever bubbled up.
set_uponly(h, i, p) ==
  LET idx == h.iim[i] IN
  IF idx < 0
  THEN push(h, Pair(i, p))
  ELSE bubble_up(touch(h, idx), idx, Pair(i, p)).h

\* Mutant of set: the direction test is inverted.
set_wrongdir(h, i, p) ==
  LET idx == h.iim[i] IN
  IF idx < 0
  THEN push(h, Pair(i, p))
  ELSE IF comp(p, at(h, idx).second)
       THEN bubble_down(touch(h, idx), idx, Pair(i, p), size(h)).h
       ELSE bubble_up(touch(h, idx), idx, Pair(i, p)).h

\* void set(const Item &i, const Prio &p)
set(h, i, p) ==
  LET idx == h.iim[i] IN
  IF idx < 0
  THEN push(h, Pair(i, p))
  ELSE IF comp(p, at(h, idx).second)
       THEN bubble_up(touch(h, idx), idx, Pair(i, p)).h
       ELSE bubble_down(touch(h, idx), idx, Pair(i, p), size(h)).h

\* void decrease(const Item &i, const Prio &p)
decrease(h, i, p) == bubble_up(h, h.iim[i], Pair(i, p)).h

\* void increase(const Item &i, const Prio &p)
increase(h, i, p) == bubble_down(h, h.iim[i], Pair(i, p), size(h)).h

\* Mutant of the state getter: every negative index reads PRE_HEAP.
state_pre(h, i) == IF h.iim[i] >= 0 THEN IN_HEAP ELSE PRE_HEAP

\* State state(const Item &i) const
state(h, i) == IF h.iim[i] >= 0 THEN IN_HEAP ELSE h.iim[i]

\* Mutant of the state setter: IN_HEAP is written into the index as well.
state_set_force(h, i, st) ==
  LET h1 == IF st # IN_HEAP /\ state(h, i) = IN_HEAP THEN erase(h, i) ELSE h
  IN [h1 EXCEPT !.iim[i] = st]

\* Mutant of the state setter: the index is overwritten without erase().
state_set_noerase(h, i, st) ==
  IF st \in {POST_HEAP, PRE_HEAP} THEN [h EXCEPT !.iim[i] = st] ELSE h

\* void state(const Item& i, State st)
state_set(h, i, st) ==
  IF st \in {POST_HEAP, PRE_HEAP}
  THEN LET h1 == IF state(h, i) = IN_HEAP THEN erase(h, i) ELSE h
       IN [h1 EXCEPT !.iim[i] = st]
  ELSE h

\* Mutant of replace: the stored entry keeps the old item.
replace_nodata(h, i, j) ==
  LET idx == h.iim[i]
      m1  == [h.iim EXCEPT ![i] = h.iim[j]]
      m2  == [m1 EXCEPT ![j] = idx]
  IN [touch(h, idx) EXCEPT !.iim = m2]

\* void replace(const Item& i, const Item& j)
replace(h, i, j) ==
  LET idx == h.iim[i]
      m1  == [h.iim EXCEPT ![i] = h.iim[j]]
      m2  == [m1 EXCEPT ![j] = idx]
  IN [touch(h, idx) EXCEPT
        !.iim = m2,
        !.data = IF InRange(h, idx)
                 THEN [h.data EXCEPT ![idx + 1] = Pair(j, at(h, idx).second)]
                 ELSE h.data]

\* Mutant of clear: only the last entry is dropped.
clear_last(h) == pop_back(h)

\* Mutant of clear: the map is reset to PRE_HEAP as well.
clear_reset(h) ==
  [h EXCEPT !.data = <<>>, !.iim = [i \in DOMAIN @ |-> PRE_HEAP]]

\* void clear()
clear(h) == [h EXCEPT !.data = <<>>]

(***************************************************************************)
(* The state machine: one action per public operation, enabled when the    *)
(* operation's documented precondition holds.                              *)
(***************************************************************************)

H == Heap(data, iim)

\* Item i occupies a slot of d and the map m points at it.
StoredIn(d, m, i) == m[i] >= 0 /\ m[i] < Len(d) /\ d[m[i] + 1].first = i

Stored(i) == StoredIn(data, iim, i)

\* The map entry of i is a slot number that i does not occupy.
Stale(i) == iim[i] >= 0 /\ ~Stored(i)

\* The value of last before any operation.
NoOp ==
  [op |-> "init", i |-> 0, p |-> 0, slot |-> 0, moves |-> 0, rose |-> 0,
   sank |-> 0, oob |-> FALSE]

\* The operation op(i, p), applied at index value slot, returned leaving h.
Done(h, op, i, p, slot) ==
  /\ data' = h.data
  /\ iim' = h.iim
  /\ last' = [op |-> op, i |-> i, p |-> p, slot |-> slot, moves |-> h.moves,
              rose |-> h.rose, sank |-> h.sank, oob |-> h.oob]

\* push: "the map must assign PRE_HEAP to any element to be put in the heap";
\* state() documents that a POST_HEAP item may get back to the heap.
Push(i, p) ==
  /\ ~cleared
  /\ iim[i] < 0
  /\ Done(push(H, Pair(i, p)), "push", i, p, iim[i])
  /\ UNCHANGED <<cleared, pushed, out, hist>>

\* pop: "the heap must be non-empty".
Pop ==
  /\ ~cleared
  /\ ~empty(H)
  /\ Done(pop(H), "pop", top(H), prio(H), 0)
  /\ UNCHANGED <<cleared, pushed, out, hist>>

\* erase: "the item should be in the heap".
Erase(i) ==
  /\ ~cleared
  /\ Stored(i)
  /\ Done(erase(H, i), "erase", i, operator_index(H, i), iim[i])
  /\ UNCHANGED <<cleared, pushed, out, hist>>

Set(i, p) ==
  /\ ~cleared
  /\ ~Stale(i)
  /\ Done(set(H, i, p), "set", i, p, iim[i])
  /\ UNCHANGED <<cleared, pushed, out, hist>>

\* decrease: "i must be stored in the heap with priority at least p".
Decrease(i, p) ==
  /\ ~cleared
  /\ Stored(i)
  /\ ~comp(operator_index(H, i), p)
  /\ Done(decrease(H, i, p), "decrease", i, p, iim[i])
  /\ UNCHANGED <<cleared, pushed, out, hist>>

\* increase: "i must be stored in the heap with priority at most p".
Increase(i, p) ==
  /\ ~cleared
  /\ Stored(i)
  /\ ~comp(p, operator_index(H, i))
  /\ Done(increase(H, i, p), "increase", i, p, iim[i])
  /\ UNCHANGED <<cleared, pushed, out, hist>>

StateSet(i, st) ==
  /\ ~cleared
  /\ ~Stale(i)
  /\ Done(state_set(H, i, st), "state", i, st, iim[i])
  /\ UNCHANGED <<cleared, pushed, out, hist>>

\* replace: "i should be in the heap, while j should be out of the heap".
Replace(i, j) ==
  /\ ~cleared
  /\ Stored(i)
  /\ iim[j] < 0
  /\ Done(replace(H, i, j), "replace", i, j, iim[i])
  /\ UNCHANGED <<cleared, pushed, out, hist>>

Clear ==
  /\ Done(clear(H), "clear", 0, 0, 0)
  /\ cleared' = (cleared \/ ~empty(H))
  /\ UNCHANGED <<pushed, out, hist>>

\* The caller's part of reuse (bin_heap.h:119-122): "first clear the heap and
\* after that" write PRE_HEAP into the map for each item.  Between a clear()
\* of a non-empty heap and the reset the heap is not used (every other
\* action requires ~cleared).
ResetMap ==
  /\ last.op = "clear"
  /\ data' = data
  /\ iim' = [i \in Item |-> PRE_HEAP]
  /\ last' = [NoOp EXCEPT !.op = "reset"]
  /\ cleared' = FALSE
  /\ UNCHANGED <<pushed, out, hist>>

\* After construction over n items: _data empty, the map PRE_HEAP everywhere.
Fresh(n) ==
  /\ data = <<>>
  /\ iim = [i \in 1..n |-> PRE_HEAP]
  /\ cleared = FALSE
  /\ last = NoOp
  /\ pushed = {}
  /\ out = <<>>
  /\ hist = [ever |-> {}, given |-> {}]

Init == Fresh(NItems)

Next ==
  \/ \E i \in Item, p \in Prio : Push(i, p)
  \/ Pop
  \/ \E i \in Item : Erase(i)
  \/ \E i \in Item, p \in Prio : Set(i, p)
  \/ \E i \in Item, p \in Prio : Decrease(i, p)
  \/ \E i \in Item, p \in Prio : Increase(i, p)
  \/ \E i \in Item, st \in States : StateSet(i, st)
  \/ \E i \in Item, j \in Item : Replace(i, j)
  \/ Clear
  \/ ResetMap

Spec == Init /\ [][Next]_vars

(***************************************************************************)
(* The scenario specification: a caller that pushes items 1, 2, ... in     *)
(* turn with any priorities in 1..ScnPrio, then calls pop, erase, decrease *)
(* or increase once on the heap it built.  It reaches the deeper heaps     *)
(* (up to BigItems slots) that the general specification is too small for. *)
(***************************************************************************)

Building == last.op \in {"init", "push"}

ScnInit == Fresh(BigItems)

ScnPush(p) == Building /\ Len(data) < BigItems /\ Push(Len(data) + 1, p)

ScnNext ==
  \/ \E p \in 1..ScnPrio : ScnPush(p)
  \/ Building /\ Pop
  \/ \E i \in Item : Building /\ Erase(i)
  \/ \E i \in Item, p \in Prio : Building /\ Decrease(i, p)
  \/ \E i \in Item, p \in Prio : Building /\ Increase(i, p)

ScnSpec == ScnInit /\ [][ScnNext]_vars

\* The scenario caller, who may also end with set() on any item.
CostNext ==
  \/ ScnNext
  \/ \E i \in Item, p \in Prio : Building /\ Set(i, p)

CostSpec == ScnInit /\ [][CostNext]_vars

(***************************************************************************)
(* The drain specification: a caller that pushes distinct items in any     *)
(* order with any priorities, then runs top()/prio()/pop() rounds,         *)
(* recording what it pushed and what each round returned.                  *)
(***************************************************************************)

DrnPush(i, p) ==
  /\ out = <<>>
  /\ iim[i] = PRE_HEAP
  /\ Done(push(H, Pair(i, p)), "push", i, p, iim[i])
  /\ pushed' = pushed \cup {Pair(i, p)}
  /\ UNCHANGED <<cleared, out, hist>>

DrnPop ==
  /\ ~empty(H)
  /\ Done(pop(H), "pop", top(H), prio(H), 0)
  /\ out' = Append(out, Pair(top(H), prio(H)))
  /\ UNCHANGED <<cleared, pushed, hist>>

DrnNext ==
  \/ \E i \in Item, p \in Prio : DrnPush(i, p)
  \/ DrnPop

DrnSpec == Init /\ [][DrnNext]_vars

(***************************************************************************)
(* The stale-map specification: a caller that keeps using the heap after   *)
(* clear() without resetting the map first.  push, pop and erase are still *)
(* called within their preconditions; set() and the state setter are       *)
(* called on any item, whatever its map entry.  An access to _data outside *)
(* [0, size) is undefined behaviour: the step is recorded with oob, its    *)
(* outcome is one of several, and nothing is modelled after it.            *)
(***************************************************************************)

\* The heaps an operation that computed h from h0 may leave: h itself, or,
\* when it indexed _data out of bounds, also the storage or the map as
\* they were.
Outcomes(h0, h) ==
  IF h.oob
  THEN {h, [h EXCEPT !.data = h0.data], [h EXCEPT !.iim = h0.iim]}
  ELSE {h}

StDone(h, op, i, p, slot) ==
  \E r \in Outcomes(H, h) : Done(r, op, i, p, slot)

Running == ~last.oob

StPush(i, p) ==
  /\ Running
  /\ iim[i] < 0
  /\ StDone(push(H, Pair(i, p)), "push", i, p, iim[i])
  /\ UNCHANGED <<cleared, pushed, out, hist>>

StPop ==
  /\ Running
  /\ ~empty(H)
  /\ StDone(pop(H), "pop", top(H), prio(H), 0)
  /\ UNCHANGED <<cleared, pushed, out, hist>>

StErase(i) ==
  /\ Running
  /\ Stored(i)
  /\ StDone(erase(H, i), "erase", i, operator_index(H, i), iim[i])
  /\ UNCHANGED <<cleared, pushed, out, hist>>

StSet(i, p) ==
  /\ Running
  /\ StDone(set(H, i, p), "set", i, p, iim[i])
  /\ UNCHANGED <<cleared, pushed, out, hist>>

StStateSet(i, st) ==
  /\ Running
  /\ StDone(state_set(H, i, st), "state", i, st, iim[i])
  /\ UNCHANGED <<cleared, pushed, out, hist>>

StClear == Running /\ Clear

StResetMap == Running /\ ResetMap

StNext ==
  \/ \E i \in Item, p \in Prio : StPush(i, p)
  \/ StPop
  \/ \E i \in Item : StErase(i)
  \/ \E i \in Item, p \in Prio : StSet(i, p)
  \/ \E i \in Item, st \in States : StStateSet(i, st)
  \/ StClear
  \/ StResetMap

StaleSpec == Init /\ [][StNext]_vars

(***************************************************************************)
(* The history specification: the caller of Spec, with priorities in       *)
(* 1..ScnPrio, recording for each item whether it has been in the heap.    *)
(*   hist.ever   the items that have been in the heap since construction   *)
(*               or since they were last reset by state(i, PRE_HEAP) or by *)
(*               the caller's reset of the map;                            *)
(*   hist.given  the items outside the heap whose index value was last     *)
(*               written by state(i, POST_HEAP) or by replace(i, j).       *)
(***************************************************************************)

\* The items that occupy a slot of d.
InHeap(d) == {d[k].first : k \in 1..Len(d)}

\* hist after op(i, p) returned leaving h.
Tracked(h, op, i, p) ==
  LET reset == IF op = "state" /\ p = PRE_HEAP THEN {i} ELSE {}
      wrote == IF op = "replace" \/ (op = "state" /\ p = POST_HEAP /\ ~Stored(i))
               THEN {i}
               ELSE {}
  IN [ever  |-> (hist.ever \cup InHeap(h.data)) \ reset,
      given |-> ((hist.given \cup wrote) \ InHeap(h.data)) \ reset]

HDone(h, op, i, p, slot) ==
  /\ ~cleared
  /\ Done(h, op, i, p, slot)
  /\ hist' = Tracked(h, op, i, p)
  /\ UNCHANGED <<cleared, pushed, out>>

HPush(i, p) == iim[i] < 0 /\ HDone(push(H, Pair(i, p)), "push", i, p, iim[i])

HPop == ~empty(H) /\ HDone(pop(H), "pop", top(H), prio(H), 0)

HErase(i) ==
  Stored(i) /\ HDone(erase(H, i), "erase", i, operator_index(H, i), iim[i])

HSet(i, p) == ~Stale(i) /\ HDone(set(H, i, p), "set", i, p, iim[i])

HStateSet(i, st) ==
  ~Stale(i) /\ HDone(state_set(H, i, st), "state", i, st, iim[i])

HReplace(i, j) ==
  Stored(i) /\ iim[j] < 0 /\ HDone(replace(H, i, j), "replace", i, j, iim[i])

HClear ==
  /\ Done(clear(H), "clear", 0, 0, 0)
  /\ cleared' = (cleared \/ ~empty(H))
  /\ UNCHANGED <<pushed, out, hist>>

HResetMap ==
  /\ last.op = "clear"
  /\ data' = data
  /\ iim' = [i \in Item |-> PRE_HEAP]
  /\ last' = [NoOp EXCEPT !.op = "reset"]
  /\ cleared' = FALSE
  /\ hist' = [ever |-> {}, given |-> {}]
  /\ UNCHANGED <<pushed, out>>

HstNext ==
  \/ \E i \in Item, p \in 1..ScnPrio : HPush(i, p)
  \/ HPop
  \/ \E i \in Item : HErase(i)
  \/ \E i \in Item, p \in 1..ScnPrio : HSet(i, p)
  \/ \E i \in Item, st \in States : HStateSet(i, st)
  \/ \E i \in Item, j \in Item : HReplace(i, j)
  \/ HClear
  \/ HResetMap

HstSpec == Init /\ [][HstNext]_vars

(***************************************************************************)
(* Properties.                                                             *)
(***************************************************************************)

Range(q) == {q[k] : k \in 1..Len(q)}

\* No entry of d precedes the entry at its parent slot.
HeapOrder(d) ==
  \A s \in 1..(Len(d) - 1) : ~less(d[s + 1], d[parent(s) + 1])

\* The map m holds s for the item stored at every slot s of d.
Coherent(d, m) == \A s \in 0..(Len(d) - 1) : m[d[s + 1].first] = s

\* The slots of d that hold item i.
SlotsOf(d, i) == {s \in 0..(Len(d) - 1) : d[s + 1].first = i}

\* An item has an index >= 0 iff it occupies a slot, and never two slots.
Membership(d, m) ==
  \A i \in DOMAIN m :
    /\ (m[i] >= 0) <=> (SlotsOf(d, i) # {})
    /\ Cardinality(SlotsOf(d, i)) <= 1

\* C1. Heap order: in every state reachable by push, pop, erase, set,
\* decrease, increase and replace called within their preconditions, no
\* non-root slot i holds a priority that compares less than the priority at
\* slot parent(i).
C1_HeapOrder == HeapOrder(data)

\* A three-entry heap left by a bubble-down that promoted a child.
C1_Witness ==
  /\ last.op \in {"increase", "pop", "erase"}
  /\ last.moves >= 2
  /\ Len(data) = 3
  /\ less(data[1], data[2])
  /\ less(data[2], data[3])

\* C2. Index coherence: after every operation the map holds s for the item
\* stored at each slot s, and operator[] of every in-heap item returns the
\* priority stored in the slot that holds the item.
C2_IndexCoherence ==
  /\ Coherent(data, iim)
  /\ \A s \in 0..(Len(data) - 1) :
       operator_index(H, data[s + 1].first) = data[s + 1].second

\* A heap whose entries were relocated: item 1 sits at slot 2.
C2_Witness ==
  /\ Len(data) = 3
  /\ last.moves >= 2
  /\ data[3].first = 1
  /\ iim[1] = 2
  /\ operator_index(H, 1) = data[3].second

\* C3. Minimum at the root: whenever the heap is non-empty no stored
\* priority compares less than prio(), and top() is an item that is in the
\* heap with the priority prio().
C3_MinAtRoot ==
  ~empty(H) =>
    /\ \A s \in 0..(Len(data) - 1) : ~comp(data[s + 1].second, prio(H))
    /\ state(H, top(H)) = IN_HEAP
    /\ SlotsOf(data, top(H)) # {}
    /\ operator_index(H, top(H)) = prio(H)

\* The last item pushed rose to the root of a three-entry heap.
C3_Witness ==
  /\ last.op = "push"
  /\ Len(data) = 3
  /\ last.moves = 2
  /\ top(H) = last.i
  /\ prio(H) = last.p
  /\ comp(prio(H), data[2].second)

Sorted(q) == \A k \in 1..(Len(q) - 1) : ~less(q[k + 1], q[k])

\* C4. Sorted extraction (DrnSpec): of the pairs pushed onto the empty heap,
\* the top()/prio()/pop() rounds return each pair exactly once and in
\* non-decreasing priority order, and the heap is empty exactly when as many
\* rounds have run as pairs were pushed.
C4_SortedExtraction ==
  /\ Sorted(out)
  /\ Range(out) \cup Range(data) = pushed
  /\ Len(out) + Len(data) = Cardinality(pushed)
  /\ Cardinality(Range(out)) = Len(out)
  /\ empty(H) <=> (Len(out) = Cardinality(pushed))

\* push (A,3), (B,1), (C,2) with A = 1, B = 2, C = 3 pops B, C, A.
C4_Witness ==
  /\ pushed = {Pair(1, 3), Pair(2, 1), Pair(3, 2)}
  /\ out = <<Pair(2, 1), Pair(3, 2), Pair(1, 3)>>
  /\ empty(H)

\* C5 as claimed: after every public operation, clear() included, an item
\* has an index >= 0 iff it occupies a slot, no item occupies two slots, and
\* size() is the number of items whose state() is IN_HEAP.
C5_Original ==
  /\ Membership(data, iim)
  /\ size(H) = Cardinality({i \in Item : state(H, i) = IN_HEAP})

\* C5 as amended: the same, in every state except between a clear() of a
\* non-empty heap and the caller's reset of the map.
C5_Membership == ~cleared => C5_Original

\* After a pop() that left two entries, with another item POST_HEAP.
C5_Witness ==
  /\ ~cleared
  /\ last.op = "pop"
  /\ Len(data) = 2
  /\ \E i \in Item : iim[i] = POST_HEAP

\* The heap value after the step.
HNext == Heap(data', iim')

\* The pairs top()/prio() return over pop() rounds until the heap is empty.
RECURSIVE Drain(_)
Drain(h) ==
  IF empty(h) THEN <<>> ELSE <<Pair(top(h), prio(h))>> \o Drain(pop(h))

\* The step is the operation op.  Every action records its name and its
\* arguments in last', so a step is Push(i, p) for some i and p exactly when
\* it is Called("push") and Push(last'.i, last'.p), and likewise for the
\* other operations.
Called(op) == last'.op = op

\* push, pop, erase and state(item, PRE_HEAP) leave the state the claim says.
C6_Transitions ==
  /\ (Called("push") /\ Push(last'.i, last'.p)) =>
       state(HNext, last'.i) = IN_HEAP
  /\ (Called("pop") /\ Pop) => state(HNext, top(H)) = POST_HEAP
  /\ (Called("erase") /\ Erase(last'.i)) =>
       state(HNext, last'.i) = POST_HEAP
  /\ (/\ Called("state")
      /\ Stored(last'.i)
      /\ StateSet(last'.i, PRE_HEAP)) =>
         /\ size(HNext) = size(H) - 1
         /\ SlotsOf(data', last'.i) = {}
         /\ state(HNext, last'.i) = PRE_HEAP

\* C6 as claimed: an item that reads PRE_HEAP keeps reading PRE_HEAP until a
\* step inserts it; after push it reads IN_HEAP; after the pop() that
\* removes it or erase() it reads POST_HEAP; state(item, PRE_HEAP) on an
\* IN_HEAP item removes it (size one less) and it then reads PRE_HEAP.
C6_Original ==
  [][/\ \A i \in Item :
          (state(H, i) = PRE_HEAP /\ state(HNext, i) # PRE_HEAP) =>
            StoredIn(data', iim', i)
     /\ C6_Transitions]_vars

\* C6 as amended: a PRE_HEAP item keeps reading PRE_HEAP until a step
\* inserts it or the caller overrides it with state(item, POST_HEAP); the
\* other transitions as claimed.
C6_StateTransitions ==
  [][/\ \A i \in Item :
          (state(H, i) = PRE_HEAP /\ state(HNext, i) # PRE_HEAP) =>
            (StoredIn(data', iim', i) \/ StateSet(i, POST_HEAP))
     /\ C6_Transitions]_vars

\* state(i, PRE_HEAP) erased an in-heap item and relocated the last entry.
C6_Witness ==
  /\ last.op = "state"
  /\ last.p = PRE_HEAP
  /\ last.slot >= 0
  /\ last.moves >= 1
  /\ state(H, last.i) = PRE_HEAP
  /\ \E j \in Item : state(H, j) = POST_HEAP
  /\ \E j \in Item : state(H, j) = IN_HEAP

C7_EraseOK(x) ==
  /\ state(HNext, x) = POST_HEAP
  /\ size(HNext) = size(H) - 1
  /\ Range(data') = Range(data) \ {Pair(x, operator_index(H, x))}
  /\ \A y \in Item \ {x} :
       Stored(y) => /\ StoredIn(data', iim', y)
                    /\ operator_index(HNext, y) = operator_index(H, y)
  /\ LET q == Drain(HNext) IN
       /\ Sorted(q)
       /\ Range(q) = Range(data')
       /\ Len(q) = Len(data')

\* C7. Erase correctness (ScnSpec): after erase(x) of any in-heap item x the
\* state of x is POST_HEAP, size is one less, every other in-heap item is
\* still in the heap with its priority, and pop() rounds until empty return
\* exactly the remaining pairs in non-decreasing priority order.
C7_EraseCorrect ==
  [][(Called("erase") /\ Erase(last'.i)) => C7_EraseOK(last'.i)]_vars

\* erase() of the item at slot 3 of a seven-entry heap, neither the minimum
\* nor the last entry; the relocated last entry rose above slot 3.
C7_Witness ==
  /\ last.op = "erase"
  /\ last.slot = 3
  /\ Len(data) = 6
  /\ last.rose = 1
  /\ comp(prio(H), last.p)
  /\ state(H, last.i) = POST_HEAP

C8_SetOK(i, p) ==
  /\ state(HNext, i) = IN_HEAP
  /\ StoredIn(data', iim', i)
  /\ operator_index(HNext, i) = p
  /\ size(HNext) = size(H) + (IF Stored(i) THEN 0 ELSE 1)
  /\ \A y \in Item \ {i} :
       Stored(y) => /\ StoredIn(data', iim', y)
                    /\ operator_index(HNext, y) = operator_index(H, y)
  /\ HeapOrder(data')
  /\ Coherent(data', iim')

\* C8. set() is an upsert: after set(i, p) on a PRE_HEAP, POST_HEAP or
\* IN_HEAP item, i is in the heap with priority p, size grew by one iff i
\* was not in the heap, every other in-heap item keeps its priority, and
\* heap order and index coherence hold.
C8_SetUpsert ==
  [][(Called("set") /\ Set(last'.i, last'.p)) =>
       C8_SetOK(last'.i, last'.p)]_vars

\* set() put a POST_HEAP item back and it rose to the root.
C8_Witness ==
  /\ last.op = "set"
  /\ last.slot = POST_HEAP
  /\ last.rose >= 1
  /\ top(H) = last.i
  /\ Len(data) = 3

\* C9. decrease/increase are equivalent to set (ScnSpec): in every reachable
\* heap, for every in-heap item i and priority p, decrease(i, p) (when p is
\* not greater than the old priority) or increase(i, p) (otherwise) leaves
\* the same storage and the same position index as set(i, p).
C9_DecIncAsSet ==
  \A i \in Item, p \in Prio :
    Stored(i) =>
      LET a == IF ~comp(operator_index(H, i), p)
               THEN decrease(H, i, p)
               ELSE increase(H, i, p)
          b == set(H, i, p)
      IN a.data = b.data /\ a.iim = b.iim

\* A six-entry heap in which an item below the root has its parent's
\* priority (so decrease() and set() to that same priority take different
\* paths), reached by a decrease() that rose.
C9_Witness ==
  /\ last.op = "decrease"
  /\ last.rose >= 1
  /\ Len(data) = 6
  /\ \E i \in Item :
       /\ Stored(i)
       /\ iim[i] > 0
       /\ operator_index(H, i) = data[parent(iim[i]) + 1].second
       /\ decrease(H, i, operator_index(H, i)).data = data
       /\ set(H, i, operator_index(H, i)).sank = 0

C10_ReplaceOK(i, j) ==
  LET s == iim[i]
      v == iim[j]
  IN /\ data'[s + 1] = Pair(j, data[s + 1].second)
     /\ iim'[j] = s
     /\ iim'[i] = v
     /\ state(HNext, i) # IN_HEAP
     /\ size(HNext) = size(H)
     /\ \A t \in 0..(Len(data) - 1) : data'[t + 1].second = data[t + 1].second
     /\ HeapOrder(data')
     /\ Coherent(data', iim')

\* C10. replace renames in place: after replace(oldItem, newItem), with
\* oldItem at slot s and newItem's index v < 0, slot s holds newItem with
\* the old priority, index[newItem] = s, index[oldItem] = v, size and every
\* slot's priority are unchanged, and heap order and index coherence hold.
C10_ReplaceInPlace ==
  [][(Called("replace") /\ Replace(last'.i, last'.p)) =>
       C10_ReplaceOK(last'.i, last'.p)]_vars

\* replace() put a POST_HEAP item at slot 1; the old item now reads POST_HEAP.
C10_Witness ==
  /\ last.op = "replace"
  /\ last.slot = 1
  /\ iim[last.p] = 1
  /\ data[2].first = last.p
  /\ iim[last.i] = POST_HEAP
  /\ Len(data) = 2

\* set() or the state setter returned having indexed _data within
\* [0, size) only, leaving heap order, index coherence and membership.
C11_Sound ==
  /\ ~last.oob
  /\ HeapOrder(data)
  /\ Coherent(data, iim)
  /\ Membership(data, iim)

\* C11 as claimed (StaleSpec): after set(i, p) or state(i, st) for any item
\* in any state reachable by public operations, clear() included and the
\* map never reset, only slots in [0, size) were read or written and heap
\* order, index coherence and exactly-once membership hold.
C11_Original == last.op \in {"set", "state"} => C11_Sound

\* C11 as amended: the same, for calls made while no clear() of a non-empty
\* heap is left without the caller's reset of the map.
C11_Tolerant == (last.op \in {"set", "state"} /\ ~cleared) => C11_Sound

\* With no clear() left without its reset, set() put a POST_HEAP item back
\* into a heap of two and it rose one level.
C11_Witness ==
  /\ last.op = "set"
  /\ last.slot = POST_HEAP
  /\ ~cleared
  /\ Len(data) = 3
  /\ last.rose = 1
  /\ C11_Sound

\* C12. clear() empties the storage and leaves the position index untouched:
\* after clear(), size() is 0, empty() is true and the index value of every
\* item, the slot numbers of the items that were in the heap included, is
\* what it was before the call.
C12_ClearFrame ==
  [][(Called("clear") /\ Clear) =>
       /\ size(HNext) = 0
       /\ empty(HNext)
       /\ iim' = iim]_vars

\* clear() emptied a heap of two; the map still holds their slots 0 and 1
\* and the POST_HEAP of a third item.
C12_Witness ==
  /\ last.op = "clear"
  /\ empty(H)
  /\ \E i \in Item : iim[i] = 0
  /\ \E i \in Item : iim[i] = 1
  /\ \E i \in Item : iim[i] = POST_HEAP

\* What the claim says state(i) returns in the current state.
C13_Meaning(i) ==
  IF SlotsOf(data, i) # {} THEN IN_HEAP
  ELSE IF i \in hist.ever THEN POST_HEAP
  ELSE PRE_HEAP

C14_ReuseAfterClear ==
  last.op = "reset" =>
    /\ size(H) = 0
    /\ \A i \in Item : state(H, i) = PRE_HEAP
    /\ H = Heap(<<>>, [i \in 1..NItems |-> PRE_HEAP])
    /\ ~cleared

\* The caller reset the map after clear(): the heap is empty and push is
\* within its precondition for every item again.
C14_Witness ==
  /\ last.op = "reset"
  /\ empty(H)
  /\ \A i \in Item : iim[i] = PRE_HEAP

\* The number of slots of d that hold the pair q.
Count(d, q) == Cardinality({k \in 1..Len(d) : d[k] = q})

C15_PopOK ==
  LET r == data[1] IN
  /\ iim'[r.first] = POST_HEAP
  /\ size(HNext) = size(H) - 1
  /\ Range(data') \subseteq Range(data)
  /\ \A q \in Range(data) :
       Count(data', q) = Count(data, q) - (IF q = r THEN 1 ELSE 0)
  /\ \A y \in Item \ {r.first} :
       /\ state(HNext, y) = state(H, y)
       /\ Stored(y) => /\ StoredIn(data', iim', y)
                       /\ operator_index(HNext, y) = operator_index(H, y)

\* C15. pop() removes exactly the root entry (ScnSpec): on any non-empty
\* heap, of size 1 included, after pop() the item that was at slot 0 has
\* index POST_HEAP, size is one less, the multiset of stored pairs is the
\* previous one minus the former root entry, and no other item's state or
\* priority has changed.
C15_PopExact == [][(Called("pop") /\ Pop) => C15_PopOK]_vars

\* pop() of a seven-entry heap: the last entry was relocated from the root
\* down two levels.
C15_Witness ==
  /\ last.op = "pop"
  /\ Len(data) = 6
  /\ last.sank = 2
  /\ iim[last.i] = POST_HEAP
  /\ SlotsOf(data, last.i) = {}

\* The slots on the path from the parent of slot s up to the root.
RECURSIVE Ancestors(_)
Ancestors(s) == IF s <= 0 THEN {} ELSE {parent(s)} \cup Ancestors(parent(s))

\* erase(x) freed slot h < n and relocated the last entry e.  bubble_up
\* stores once after its rose promotions and bubble_down once after its sank
\* promotions, so bubble_down ran iff moves = rose + sank + 2.
C16_EraseOK(x) ==
  LET h == iim[x]
      n == size(H) - 1
      e == data[n + 1]
  IN h < n =>
       /\ last'.rose = 0 <=> last'.moves = last'.rose + last'.sank + 2
       /\ last'.rose > 0 => (last'.moves = last'.rose + 1 /\ last'.sank = 0)
       /\ StoredIn(data', iim', e.first)
       /\ (h > 0 /\ less(e, data[parent(h) + 1])) =>
            /\ iim'[e.first] \in Ancestors(h)
            /\ HeapOrder(data')

\* C16. Erase restores order by bubble-up first (ScnSpec): when erase(x)
\* frees a slot h that is not the last slot, the last entry is placed by
\* bubble-up from h and bubble-down from h runs iff bubble-up left the entry
\* at h; when the relocated entry compares less than the entry at
\* parent(h) it ends at a proper ancestor slot of h and heap order holds.
C16_EraseUpFirst ==
  [][(Called("erase") /\ Erase(last'.i)) => C16_EraseOK(last'.i)]_vars

\* erase() freed slot 4 of a seven-entry heap and the entry relocated from
\* slot 6 rose to slot 1, above the freed slot.
C16_Witness ==
  /\ last.op = "erase"
  /\ last.slot = 4
  /\ last.rose = 1
  /\ last.moves = 2
  /\ Len(data) = 6
  /\ data[2].first = BigItems
  /\ HeapOrder(data)

\* The child slot of hole that a step of bubble-down compares with the moved
\* entry, when children of equal priority go to the side ties.
C17_Pick(hole, ties) ==
  LET l == 2 * hole + 1
      r == 2 * hole + 2
  IN IF less(data[l + 1], data[r + 1]) THEN l
     ELSE IF less(data[r + 1], data[l + 1]) THEN r
     ELSE IF ties = "left" THEN l ELSE r

\* bubble_down(hole, p, length) on the current storage left, at every hole
\* with two children on its way, the picked child if it precedes p and p
\* otherwise.
RECURSIVE C17_Path(_, _, _, _)
C17_Path(hole, p, length, ties) ==
  second_child(hole) < length =>
    LET c == C17_Pick(hole, ties) IN
    IF less(data[c + 1], p)
    THEN data'[hole + 1] = data[c + 1] /\ C17_Path(c, p, length, ties)
    ELSE data'[hole + 1] = p

\* The bubble-downs of increase(), pop() and erase() follow C17_Path.
C17_Steps(ties) ==
  /\ (Called("increase") /\ Increase(last'.i, last'.p)) =>
       C17_Path(iim[last'.i], Pair(last'.i, last'.p), size(H), ties)
  /\ (Called("pop") /\ Pop /\ size(H) > 1) =>
       C17_Path(0, data[size(H)], size(H) - 1, ties)
  /\ (/\ Called("erase")
      /\ Erase(last'.i)
      /\ iim[last'.i] < size(H) - 1
      /\ last'.rose = 0) =>
       C17_Path(iim[last'.i], data[size(H)], size(H) - 1, ties)

\* C17 as claimed (ScnSpec): at each step of bubble-down where the hole has
\* two children the right child is the one compared only when it strictly
\* precedes the left child; children of equal priority: the left one.
C17_Original == [][C17_Steps("left")]_vars

\* C17 as amended: the left child is the one compared only when it strictly
\* precedes the right child; children of equal priority: the right one.
C17_TieBreak == [][C17_Steps("right")]_vars

\* pop() of a seven-entry heap whose root had two children of equal
\* priority, items 2 (left) and 3 (right): item 3 was promoted to the root.
C17_Witness ==
  /\ last.op = "pop"
  /\ last.i = 1
  /\ last.sank = 1
  /\ Len(data) = 6
  /\ data[1].first = 3
  /\ data[2].first = 2
  /\ data[1].second = data[2].second

C18_FrameOK(i, st) ==
  /\ st = IN_HEAP => (data' = data /\ iim' = iim)
  /\ (st \in {PRE_HEAP, POST_HEAP} /\ ~Stored(i)) =>
       /\ data' = data
       /\ iim' = [iim EXCEPT ![i] = st]

\* C18. Frame of the state override: state(i, IN_HEAP) changes neither the
\* storage nor any index entry, whatever the state of i; state(i, PRE_HEAP)
\* or state(i, POST_HEAP) on an item that is not in the heap changes only
\* the index entry of i, to the requested sentinel.
C18_OverrideFrame ==
  [][(Called("state") /\ StateSet(last'.i, last'.p)) =>
       C18_FrameOK(last'.i, last'.p)]_vars

\* state(i, PRE_HEAP) on a POST_HEAP item, beside a heap of two entries that
\* it left alone.
C18_Witness ==
  /\ last.op = "state"
  /\ last.p = PRE_HEAP
  /\ last.slot = POST_HEAP
  /\ last.moves = 0
  /\ iim[last.i] = PRE_HEAP
  /\ Len(data) = 2

\* C19. Slot bounds (Spec): no operation called within its documented
\* precondition reads or writes a storage slot outside [0, size); parent(0)
\* is 0 by truncating division, and bubble_down's check of the single child
\* left after the loop stays inside the storage.
C19_SlotBounds ==
  /\ ~last.oob
  /\ parent(0) = 0

\* set() sank an entry from the root of a two-entry heap: after the loop
\* bubble_down found the single child at slot 1 = length - 1 and read it.
C19_Witness ==
  /\ last.op = "set"
  /\ last.slot = 0
  /\ last.sank = 1
  /\ Len(data) = 2
  /\ ~last.oob

\* The height of the complete binary tree of n entries: the number of edges
\* from the root down to the last slot.
RECURSIVE TreeHeight(_)
TreeHeight(n) == IF n <= 1 THEN 0 ELSE 1 + TreeHeight(n \div 2)

\* The height of the tree the last operation worked on: the larger of the
\* heap before and after it.
C20_Height ==
  TreeHeight(Len(data) + (IF last.op \in {"pop", "erase"} THEN 1 ELSE 0))

\* Each iteration of bubble_up moves the hole to a lower slot, never below
\* slot 0, and each iteration of bubble_down moves it to a higher slot.
C20_HoleMoves ==
  /\ \A s \in 1..Len(data) : 0 <= parent(s) /\ parent(s) < s
  /\ \A s \in 0..Len(data) : second_child(s) - 1 > s

\* The last operation returned after at most C20_Height + 1 entry moves,
\* erase() after at most C20_Height + extra + 1.
C20_Bounded(extra) ==
  /\ C20_HoleMoves
  /\ last.op \in {"push", "pop", "set", "decrease", "increase"} =>
       last.moves <= C20_Height + 1
  /\ last.op = "erase" => last.moves <= C20_Height + extra + 1

\* C20 as claimed (CostSpec): push, pop, erase, set, decrease and increase
\* return after a number of entry moves at most the height of the tree plus
\* one, the hole index strictly decreasing in bubble_up and strictly
\* increasing in bubble_down.
C20_Original == C20_Bounded(0)

\* C20 as amended: the same, with the height of the tree plus two for
\* erase(), which stores the relocated entry once in bubble_up and again in
\* bubble_down.
C20_Terminates == C20_Bounded(1)

\* erase() of the root of a seven-entry heap took four entry moves: one in
\* bubble_up, two promotions and the final store in bubble_down.
C20_Witness ==
  /\ last.op = "erase"
  /\ last.slot = 0
  /\ Len(data) = 6
  /\ last.sank = 2
  /\ last.moves = C20_Height + 2

====
